---- MODULE Spec2Model ----
(***************************************************************************)
(* Client-side media upload pipeline of the journalist portfolio:          *)
(* HEIC detection and conversion (utils/imageConverter), validation, path  *)
(* generation, resumable upload and deletion (Firebase storage service).   *)
(*                                                                         *)
(* Strings are modelled by the pieces the code takes them apart into: a    *)
(* file name is the sequence name.split('.'), a storage path and a URL are *)
(* sequences of tokens in which every separator ("/", ".", "_", "?", "#")  *)
(* is a token of its own.  File sizes are counted in megabytes.            *)
(*                                                                         *)
(* The pages built on top of it are modelled as React components: a        *)
(* handler together with the effects its state changes trigger is one      *)
(* action, and every awaited request is answered by an action of its own.  *)
(***************************************************************************)
EXTENDS Integers, Sequences, FiniteSets, TLC

\* ------------------------------------------------------------------ bounds
MaxFileSize == 3      \* file and blob sizes range over 0..MaxFileSize
MaxTime == 1          \* Date.now() ranges over 0..MaxTime
MaxToken == 2         \* Math.random() tokens range over 1..MaxToken
ChunksPerMB == 3      \* a transfer reports its bytes in 1/ChunksPerMB megabytes
Calls == {1, 2}       \* uploadFile calls that may be in flight together
FirstCall == CHOOSE c \in Calls : \A d \in Calls : c <= d
MaxPosts == 3         \* the admin list starts with posts 1..MaxPosts
PageSize == 2         \* posts per page of the admin list
MaxInFlight == 2      \* list requests that may be in flight together
MaxSlugs == 2         \* the detail pages are opened for slugs 1..MaxSlugs
MaxImages == 3        \* a carousel holds 1..MaxImages images
MaxUrls == 2          \* an array of media URLs holds 0..MaxUrls entries

\* ----------------------------------------------------- configuration
\* FILE_UPLOAD of config/constants (per-category ceilings and allow-lists).
MAX_IMAGE_SIZE == 1
MAX_VIDEO_SIZE == 2
ALLOWED_IMAGE_TYPES == {"image/jpeg", "image/png", "image/gif", "image/webp"}
ALLOWED_VIDEO_TYPES == {"video/mp4", "video/webm"}

\* ------------------------------------------------------------- inputs
NoFile == [name |-> <<>>, type |-> "none", size |-> 0, absent |-> TRUE]
File(n, t, s) == [name |-> n, type |-> t, size |-> s, absent |-> FALSE]

Names == {<<"photo", "HEIC">>, <<"pic", "bmp">>, <<"img", "png">>, <<"IMG_0001">>}
Types == {"image/heic", "image/png", "video/mp4"}
Sizes == 0..MaxFileSize
InputFiles == {File(n, t, s) : n \in Names, t \in Types, s \in Sizes} \cup {NoFile}
\* The files of concurrent calls: one per way through the pipeline.
ConcurrentFiles ==
  {File(<<"photo", "HEIC">>, "image/heic", 1), File(<<"IMG_0001">>, "image/heic", 1),
   File(<<"img", "png">>, "image/png", 1), File(<<"img", "png">>, "image/png", MaxFileSize),
   File(<<"pic", "bmp">>, "image/png", 1), File(<<"clip", "mp4">>, "video/mp4", 1)}
Categories == {"image", "video"}
Tokens == 1..MaxToken
TransportErrors == {"storage/retry-limit-exceeded"}

Last(s) == s[Len(s)]
Front(s) == SubSeq(s, 1, Len(s) - 1)

\* String.prototype.toLowerCase on the name pieces and MIME types in use.
ToLowerCase(s) ==
  CASE s = "HEIC" -> "heic"
    [] s = "HEIF" -> "heif"
    [] s = "HIF" -> "hif"
    [] s = "BMP" -> "bmp"
    [] s = "JPG" -> "jpg"
    [] s = "PNG" -> "png"
    [] s = "Heic" -> "heic"
    [] s = "TIFF" -> "tiff"
    [] s = "IMAGE/HEIC" -> "image/heic"
    [] OTHER -> s

\* ------------------------------------------------------ imageConverter
\* isHEICFile comparing the name as it is spelled.
isHEICFile_CaseSensitive(file) ==
  IF file.absent THEN FALSE
  ELSE LET hasHEICExtension ==
             /\ Len(file.name) > 1
             /\ Last(file.name) \in {"heic", "heif", "hif"}
           hasHEICMimeType ==
             ToLowerCase(file.type) \in
               {"image/heic", "image/heif", "image/heic-sequence", "image/heif-sequence"}
       IN hasHEICExtension \/ hasHEICMimeType

isHEICFile(file) ==
  IF file.absent THEN FALSE
  ELSE LET hasHEICExtension ==
             /\ Len(file.name) > 1
             /\ ToLowerCase(Last(file.name)) \in {"heic", "heif", "hif"}
           hasHEICMimeType ==
             ToLowerCase(file.type) \in
               {"image/heic", "image/heif", "image/heic-sequence", "image/heif-sequence"}
       IN hasHEICExtension \/ hasHEICMimeType

\* isHEICFile on any value a caller may pass: no file at all, or an object whose
\* name or type property is missing.  file.name.toLowerCase() on a missing name
\* is a TypeError; a missing type reads as ''.
Descriptor(hasName, n, hasType, t) ==
  [absent |-> FALSE, hasName |-> hasName, name |-> n, hasType |-> hasType, type |-> t]
NoDescriptor ==
  [absent |-> TRUE, hasName |-> FALSE, name |-> <<>>, hasType |-> FALSE, type |-> ""]

isHEICFileCall(d) ==
  IF d.absent THEN [threw |-> FALSE, value |-> FALSE]
  ELSE IF ~d.hasName THEN [threw |-> TRUE, value |-> FALSE]
  ELSE [threw |-> FALSE,
        value |-> isHEICFile(File(d.name, IF d.hasType THEN d.type ELSE "", 0))]

DetectorNames ==
  {<<"a", "heic">>, <<"a", "HEIC">>, <<"a", "Heic">>, <<"a", "heif">>, <<"a", "HEIF">>,
   <<"a", "hif">>, <<"a", "HIF">>, <<"a", "jpg">>, <<"a", "png">>, <<"a", "heic", "jpg">>,
   <<"heic">>, <<"", "heic">>, <<"">>}
DetectorTypes ==
  {"image/heic", "IMAGE/HEIC", "image/heif", "image/heic-sequence", "image/heif-sequence",
   "image/jpeg", "application/octet-stream", ""}
Descriptors ==
  {Descriptor(TRUE, n, TRUE, t) : n \in DetectorNames, t \in DetectorTypes}
    \cup {Descriptor(TRUE, n, FALSE, "") : n \in DetectorNames}
    \cup {Descriptor(FALSE, <<>>, TRUE, t) : t \in DetectorTypes}
    \cup {Descriptor(FALSE, <<>>, FALSE, ""), NoDescriptor}

\* The replacement without the regular expression's i flag.
ReplaceHEICExtension_CaseSensitive(name) ==
  IF Len(name) > 1 /\ Last(name) \in {"heic", "heif", "hif"}
  THEN Append(Front(name), "jpg")
  ELSE name

\* heicFile.name.replace(/\.(heic|heif|hif)$/i, '.jpg')
ReplaceHEICExtension(name) ==
  IF Len(name) > 1 /\ ToLowerCase(Last(name)) \in {"heic", "heif", "hif"}
  THEN Append(Front(name), "jpg")
  ELSE name

\* What heic2any may hand back: one blob, an array of blobs, something that
\* is no blob, or a thrown error.
Blob(s) == [kind |-> "blob", frames |-> <<s>>, msg |-> ""]
BlobArray(fs) == [kind |-> "array", frames |-> fs, msg |-> ""]
NotABlob == [kind |-> "other", frames |-> <<>>, msg |-> ""]
Throws(m) == [kind |-> "throw", frames |-> <<>>, msg |-> m]
LibResults ==
  {Blob(s) : s \in Sizes} \cup {BlobArray(<<>>), BlobArray(<<1, 0>>), NotABlob}
    \cup {Throws("ERR_LIBHEIF format not supported")}

Ok(v) == [ok |-> TRUE, value |-> v, error |-> <<>>]
Err(m) == [ok |-> FALSE, value |-> NoFile, error |-> m]

\* convertHEICWithLibrary without the check of what the library returned.
convertHEICWithLibrary_NoBlobCheck(heicFile, r) ==
  LET wrap(m) == <<"Failed to convert HEIC image: ", m,
                   ". Please try converting the image to JPEG manually.">>
  IN IF r.kind = "throw" THEN Err(wrap(r.msg))
     ELSE Ok(File(ReplaceHEICExtension(heicFile.name), "image/jpeg",
                  IF Len(r.frames) > 0 THEN r.frames[1] ELSE 0))

convertHEICWithLibrary(heicFile, r) ==
  LET wrap(m) == <<"Failed to convert HEIC image: ", m,
                   ". Please try converting the image to JPEG manually.">>
      usable == \/ r.kind = "blob"
                \/ r.kind = "array" /\ Len(r.frames) > 0
  IN IF r.kind = "throw" THEN Err(wrap(r.msg))
     ELSE IF ~usable THEN Err(wrap("Conversion failed: Invalid blob returned"))
     ELSE Ok(File(ReplaceHEICExtension(heicFile.name), "image/jpeg", r.frames[1]))

\* The continuation of convertHEICToJPEG after the awaited library call.
convertHEICToJPEG(file, r) ==
  IF ~isHEICFile(file) THEN Ok(file)
  ELSE LET converted == convertHEICWithLibrary(file, r)
       IN IF converted.ok THEN converted
          ELSE Err(<<"Unable to convert HEIC image automatically: ">> \o converted.error
                   \o <<". Please convert the image to JPEG or PNG format manually. ",
                        "On Mac: Open in Preview -> File -> Export -> Format: JPEG">>)

\* getImageFormatError without its HEIC/HEIF message.
getImageFormatError_NoHEIC(file) ==
  LET fileExtension == IF Len(file.name) = 0 THEN "unknown"
                       ELSE ToLowerCase(Last(file.name))
  IN IF fileExtension \in {"heic", "heif", "hif", "tiff", "tif", "bmp", "raw", "cr2", "nef"}
     THEN <<"The ", fileExtension, " format is not supported for web display.">>
     ELSE <<"Unsupported image format. Please use JPEG, PNG, GIF, or WebP format.">>

getImageFormatError(file) ==
  IF isHEICFile(file)
  THEN <<"HEIC images are not supported. Please convert to JPEG or PNG format.">>
  ELSE LET fileExtension == IF Len(file.name) = 0 THEN "unknown"
                            ELSE ToLowerCase(Last(file.name))
       IN IF fileExtension \in {"heic", "heif", "hif", "tiff", "tif", "bmp", "raw", "cr2", "nef"}
          THEN <<"The ", fileExtension, " format is not supported for web display.">>
          ELSE <<"Unsupported image format. Please use JPEG, PNG, GIF, or WebP format.">>

\* ------------------------------------------------- firebase storage service
getFileExtension(filename) ==
  IF Len(filename) > 1 THEN ToLowerCase(Last(filename)) ELSE ""

UnsupportedExtensions == {"tiff", "tif", "bmp", "raw", "cr2", "nef", "orf", "arw"}

SizeError(maxSize) ==
  <<"File size exceeds maximum allowed size of ", ToString(maxSize), "MB">>

\* validateFile without its size check.
validateFile_NoSizeCheck(file, type) ==
  LET allowedTypes == IF type = "video" THEN ALLOWED_VIDEO_TYPES ELSE ALLOWED_IMAGE_TYPES
  IN IF file.absent THEN <<"No file provided">>
     ELSE IF type = "image" /\ getFileExtension(file.name) \in UnsupportedExtensions
          THEN getImageFormatError(file)
     ELSE IF file.type \notin allowedTypes
          THEN IF type = "image" THEN getImageFormatError(file)
               ELSE <<"File type not allowed. Allowed types: ", "video/mp4, video/webm">>
     ELSE <<>>

\* validateFile without its extension blocklist.
validateFile_NoBlocklist(file, type) ==
  LET maxSize == IF type = "video" THEN MAX_VIDEO_SIZE ELSE MAX_IMAGE_SIZE
      allowedTypes == IF type = "video" THEN ALLOWED_VIDEO_TYPES ELSE ALLOWED_IMAGE_TYPES
  IN IF file.absent THEN <<"No file provided">>
     ELSE IF file.size > maxSize THEN SizeError(maxSize)
     ELSE IF file.type \notin allowedTypes
          THEN IF type = "image" THEN getImageFormatError(file)
               ELSE <<"File type not allowed. Allowed types: ", "video/mp4, video/webm">>
     ELSE <<>>

\* validateFile checking the extension and the MIME type before the size.
validateFile_SizeLast(file, type) ==
  LET maxSize == IF type = "video" THEN MAX_VIDEO_SIZE ELSE MAX_IMAGE_SIZE
      allowedTypes == IF type = "video" THEN ALLOWED_VIDEO_TYPES ELSE ALLOWED_IMAGE_TYPES
  IN IF file.absent THEN <<"No file provided">>
     ELSE IF type = "image" /\ getFileExtension(file.name) \in UnsupportedExtensions
          THEN getImageFormatError(file)
     ELSE IF file.type \notin allowedTypes
          THEN IF type = "image" THEN getImageFormatError(file)
               ELSE <<"File type not allowed. Allowed types: ", "video/mp4, video/webm">>
     ELSE IF file.size > maxSize THEN SizeError(maxSize)
     ELSE <<>>

\* <<>> when the file passes, the message of the thrown error otherwise.
validateFile(file, type) ==
  LET maxSize == IF type = "video" THEN MAX_VIDEO_SIZE ELSE MAX_IMAGE_SIZE
      allowedTypes == IF type = "video" THEN ALLOWED_VIDEO_TYPES ELSE ALLOWED_IMAGE_TYPES
  IN IF file.absent THEN <<"No file provided">>
     ELSE IF file.size > maxSize THEN SizeError(maxSize)
     ELSE IF type = "image" /\ getFileExtension(file.name) \in UnsupportedExtensions
          THEN getImageFormatError(file)
     ELSE IF file.type \notin allowedTypes
          THEN IF type = "image" THEN getImageFormatError(file)
               ELSE <<"File type not allowed. Allowed types: ", "video/mp4, video/webm">>
     ELSE <<>>

\* generateFilePath naming the object by the timestamp alone.
generateFilePath_NoRandom(file, folder, timestamp, randomString) ==
  <<folder, "/", ToString(timestamp), ".", Last(file.name)>>

generateFilePath(file, folder, timestamp, randomString) ==
  <<folder, "/", ToString(timestamp), "_", ToString(randomString), ".", Last(file.name)>>

\* uploadImage / uploadVideo: folder: options.folder || 'images' / 'videos'.
DefaultFolder(type) == IF type = "video" THEN "videos" ELSE "images"

encodeURIComponent(s) == [i \in 1..Len(s) |-> IF s[i] = "/" THEN "%2F" ELSE s[i]]
decodeURIComponent(s) == [i \in 1..Len(s) |-> IF s[i] = "%2F" THEN "/" ELSE s[i]]

\* The download URL the object store issues for a stored path.
DownloadURL(path) ==
  <<"https:", "//", "firebasestorage.googleapis.com", "/", "v0", "/", "b", "/",
    "bucket", "/", "o", "/">> \o encodeURIComponent(path) \o <<"?", "alt=media">>

\* new URL(s): a string without scheme and host is a TypeError; the pathname
\* runs from the first "/" after the host up to the first "?" or "#".
ParseURL(s) ==
  IF Len(s) >= 3 /\ s[1] \in {"https:", "http:"} /\ s[2] = "//"
  THEN LET stops == {i \in 4..Len(s) : s[i] \in {"?", "#"}}
           end == IF stops = {} THEN Len(s)
                  ELSE (CHOOSE i \in stops : \A j \in stops : i <= j) - 1
       IN [ok |-> TRUE, pathname |-> SubSeq(s, 4, end)]
  ELSE [ok |-> FALSE, pathname |-> <<>>]

\* The match without the closing question mark: /\/o\/(.+)/.
MatchStoragePath_NoQuery(pathname) ==
  LET hits == {i \in 1..Len(pathname) :
                 /\ i + 3 <= Len(pathname)
                 /\ pathname[i] = "/" /\ pathname[i + 1] = "o" /\ pathname[i + 2] = "/"}
  IN IF hits = {} THEN <<>>
     ELSE LET first == CHOOSE i \in hits : \A j \in hits : i <= j
          IN SubSeq(pathname, first + 3, Len(pathname))

\* pathname.match(/\/o\/(.+)\?/): the captured group, or <<>> for null.
MatchStoragePath(pathname) ==
  LET hits == {p \in (1..Len(pathname)) \X (1..Len(pathname)) :
                 /\ p[1] + 2 <= Len(pathname)
                 /\ pathname[p[1]] = "/" /\ pathname[p[1] + 1] = "o"
                 /\ pathname[p[1] + 2] = "/"
                 /\ p[2] > p[1] + 3
                 /\ pathname[p[2]] = "?"}
  IN IF hits = {} THEN <<>>
     ELSE LET first == CHOOSE i \in {p[1] : p \in hits} : \A p \in hits : i <= p[1]
              last == CHOOSE j \in {p[2] : p \in hits} : \A p \in hits : p[2] <= j
          IN SubSeq(pathname, first + 3, last - 1)

ForeignStrings ==
  {<<"not a url">>,
   <<"https:", "//", "example.com", "/", "photo", ".", "jpg">>,
   <<"https:", "//", "example.com", "/", "o", "/", "x", ".", "jpg", "?", "alt=media">>}

\* ------------------------------------------------------- admin post list
\* The two AdminPostList components: "state" keeps the page in component
\* state and deletes post by post, "url" keeps it in the query string and
\* deletes with one bulk request.
Variants == {"state", "url"}
PostIds == 1..MaxPosts
\* The status tabs run the same code; one of them stands for both.
Filters == {"all", "published"}
Answers == {"ok", "fail", "throw"}
PostStatus(id) == IF id = 1 THEN "draft" ELSE "published"

\* Math.ceil(total / pageSize)
Ceil(total, pageSize) == (total + pageSize - 1) \div pageSize
\* Page numbers range up to one page behind the last page of the full list.
MaxPage == Ceil(MaxPosts, PageSize) + 1

\* The posts the backend holds that a list request with params.status selects.
Matching(server, filter) ==
  {id \in server : filter = "all" \/ PostStatus(id) = filter}
Ascending(S) ==
  CHOOSE q \in [1..Cardinality(S) -> S] : \A i, j \in 1..Cardinality(S) : i < j => q[i] < q[j]

\* adminAPI.listPosts({ page, limit, status }) as the backend answers it.
listPosts(server, filter, page, answer) ==
  LET all == Ascending(Matching(server, filter))
      from == (page - 1) * PageSize + 1
      to == IF page * PageSize < Len(all) THEN page * PageSize ELSE Len(all)
  IN [answer |-> answer,
      data |-> IF answer = "ok" THEN SubSeq(all, from, to) ELSE <<>>,
      total |-> IF answer = "ok" THEN Len(all) ELSE 0]

Range(q) == {q[i] : i \in 1..Len(q)}
RemoveAt(q, i) == SubSeq(q, 1, i - 1) \o SubSeq(q, i + 1, Len(q))

NoOp == [kind |-> "none", ids |-> {}, total |-> 0, page |-> 1, filter |-> "all",
         reloading |-> FALSE]
\* What the last delete handler was called with, asked of the backend and reported.
NoReport == [kind |-> "none", ids |-> {}, confirmed |-> FALSE, issued |-> <<>>,
             answers |-> <<>>, success |-> 0, fail |-> 0, counted |-> FALSE,
             finished |-> FALSE]
NoAdmin ==
  [variant |-> "none", server |-> {}, filter |-> "all", currentPage |-> 1,
   posts |-> <<>>, total |-> 0, totalPages |-> 0, loading |-> FALSE, error |-> FALSE,
   selectedPosts |-> {}, deletingPostId |-> 0, bulkDeleting |-> FALSE,
   requests |-> <<>>, stale |-> FALSE,
   op |-> NoOp, report |-> NoReport]


\* ---------------------------------------------------------- detail pages
\* BlogDetail and NewsDetail; a post is named by the number of its slug.
DetailKinds == {"blog", "news"}
Slugs == 1..MaxSlugs
\* listPosts({ limit: 3, ... }) and relatedData.data.slice(0, 3)
RelatedLimit == 3
NoRelated == [for |-> 0, n |-> 0]
NoDetail ==
  [kind |-> "none", slug |-> 0, post |-> 0, relatedPosts |-> NoRelated,
   loading |-> FALSE, error |-> FALSE, loads |-> <<>>]

\* --------------------------------------------------------- image carousel
\* const minSwipeDistance = 50
minSwipeDistance == 50
\* clientX of a touch, in pixels; -1 stands for null.
TouchXs == {0, 40, 90, 100}
NoTouch == -1
\* The last event handled and the one before it: the handler's name, the
\* index it started from and, for onTouchEnd, the touch state it read.
NoEvent ==
  [name |-> "none", from |-> 0, start |-> NoTouch, end |-> NoTouch,
   before |-> "none", beforeFrom |-> 0]
NoCarousel ==
  [n |-> 0, currentIndex |-> 0, touchStart |-> NoTouch, touchEnd |-> NoTouch,
   last |-> NoEvent]

\* ------------------------------------------------------- media URL handling
\* post.media_urls by what it is and, for a string, by what JSON.parse makes
\* of it: no value (undefined, null or ''), an array, the JSON text of an
\* array, the JSON text of one string, or a string that is no JSON.  urls
\* holds the entries: of the array, of the array or the value the text
\* encodes, or the plain string itself.
MediaShapes == {"none", "array", "jsonArray", "jsonValue", "plain"}
MediaUrlValues == {"", " ", "a.jpg", "youtu.be/v"}

SeqsUpTo(S, n) == UNION {[1..k -> S] : k \in 0..n}

MediaUrlsOf(shape) ==
  CASE shape = "none" -> {<<>>}
    [] shape \in {"array", "jsonArray"} -> SeqsUpTo(MediaUrlValues, MaxUrls)
    [] shape = "jsonValue" -> [1..1 -> MediaUrlValues]
    [] shape = "plain" -> [1..1 -> MediaUrlValues \ {""}]

DetailPosts ==
  UNION {[shape : {shape}, urls : MediaUrlsOf(shape), media_url : {"", "m.jpg"},
          cover_image_url : {"", "c.jpg"}, media_type : {"none", "image", "video"}]
         : shape \in MediaShapes}

NoPost == [shape |-> "none", urls |-> <<>>, media_url |-> "", cover_image_url |-> "",
           media_type |-> "none"]
NoMedia ==
  [fn |-> "none", post |-> NoPost, error |-> "none", urls |-> <<>>, items |-> <<>>,
   image |-> ""]

\* String.prototype.trim on the values above
Trim(url) == IF url = " " THEN "" ELSE url

\* url && url.trim() !== ''
NonEmpty(url) == url # "" /\ Trim(url) # ""

\* url.includes('youtube.com') || url.includes('youtu.be')
IsYouTube(url) == url = "youtu.be/v"

\* JSON.parse(post.media_urls) of a string: the array or the value the text
\* encodes, or a SyntaxError for a text that is no JSON.
JSONParse(post) ==
  CASE post.shape = "jsonArray" -> [error |-> "none", array |-> TRUE, value |-> post.urls]
    [] post.shape = "jsonValue" -> [error |-> "none", array |-> FALSE, value |-> post.urls]
    [] post.shape = "plain" -> [error |-> "SyntaxError", array |-> FALSE, value |-> <<>>]

\* The media carousel block of both detail pages: mediaUrls after the
\* backward-compatibility step, and the items handed to MediaCarousel.
MediaCarouselBlock(post) ==
  LET kept == SelectSeq(post.urls, NonEmpty)
      fromUrls ==
        CASE post.shape = "none" -> <<>>
          [] post.shape = "array" -> kept
          [] post.shape = "plain" /\ Trim(post.urls[1]) = "" -> <<>>
          [] OTHER ->
               \* try { JSON.parse ... } catch (e) { [post.media_urls].filter(...) }
               IF JSONParse(post).error = "none"
               THEN SelectSeq(JSONParse(post).value, NonEmpty)
               ELSE kept
      mediaUrls == IF fromUrls = <<>> /\ post.media_url # ""
                   THEN <<post.media_url>> ELSE fromUrls
      trimmed == [i \in 1..Len(mediaUrls) |-> Trim(mediaUrls[i])]
      items == IF mediaUrls # <<>> /\ post.media_type # "none"
               THEN SelectSeq(trimmed, LAMBDA url : url # "") ELSE <<>>
  IN [error |-> "none", urls |-> mediaUrls, items |-> items, image |-> ""]

\* mediaUrls.find(url => url && url.trim() && !youtube): the first such entry,
\* '' standing for undefined.
Find(urls) ==
  LET ok == SelectSeq(urls, LAMBDA url : NonEmpty(url) /\ ~IsYouTube(url))
  IN IF ok = <<>> THEN "" ELSE ok[1]

\* The ogImage computation of NewsDetail.  JSON.parse is called outside any
\* try, and find is called on whatever it returned.
OgImage(post) ==
  LET raised ==
        IF post.cover_image_url # "" \/ post.shape \in {"none", "array"} THEN "none"
        ELSE IF JSONParse(post).error # "none" THEN JSONParse(post).error
        ELSE IF ~JSONParse(post).array THEN "TypeError"
        ELSE "none"
      found ==
        IF post.cover_image_url # "" THEN post.cover_image_url
        ELSE IF post.shape = "none" THEN ""
        ELSE Find(post.urls)
  IN IF raised # "none"
     THEN [error |-> raised, urls |-> <<>>, items |-> <<>>, image |-> ""]
     ELSE [error |-> "none", urls |-> <<>>, items |-> <<>>,
           image |-> IF found = "" THEN post.media_url ELSE found]

\* ------------------------------------------------------------------ state
VARIABLES
  firebaseConfigured,  \* isFirebaseConfigured()
  storage,             \* the storage handle is initialised
  now,                 \* Date.now()
  pc,                  \* per call: where uploadFile is suspended
  arg,                 \* per call: the file and options it was called with
  fileToUpload,        \* per call: local fileToUpload
  filePath,            \* per call: local filePath, <<>> before it is generated
  outcome,             \* per call: the returned promise
  invoked,             \* per call: how often each pipeline step was invoked
  env,                 \* per call: what the library, clock and transport answered
  store,               \* the remote object store
  del,                 \* the last deleteFile call and what it did
  progress,            \* per call: the last value handed to onProgress
  probe,               \* the last direct call of isHEICFile or validateFile
  conv,                \* a direct call of convertHEICToJPEG
  admin,               \* the AdminPostList component and its backend
  detail,              \* the BlogDetail / NewsDetail component
  carousel,            \* the ImageCarousel component
  media                \* the last evaluation of the media URL handling

\* The state outside the upload and delete operations.
pages == <<admin, detail, carousel, media>>
others == <<probe, conv, pages>>

vars == <<firebaseConfigured, storage, now, pc, arg, fileToUpload, filePath,
          outcome, invoked, env, store, del, progress, probe, conv, admin,
          detail, carousel, media>>

Pending == [kind |-> "pending", url |-> <<>>, error |-> <<>>]
Resolved(u) == [kind |-> "resolved", url |-> u, error |-> <<>>]
Rejected(m) == [kind |-> "rejected", url |-> <<>>, error |-> m]

NoArg == [file |-> NoFile, type |-> "image", folder |-> "uploads"]
NoSteps == [convert |-> 0, validate |-> 0, genpath |-> 0, upload |-> 0]
NoEnv == [lib |-> NotABlob, asked |-> FALSE, timestamp |-> 0, random |-> 0,
          transfer |-> "", url |-> ""]
NoDelete == [called |-> FALSE, url |-> <<>>, requests |-> <<>>, error |-> <<>>]
NoProgress == [emitted |-> FALSE, nan |-> FALSE, value |-> 0]
NoProbe == [fn |-> "none", input |-> NoFile, type |-> "image", threw |-> FALSE,
            value |-> FALSE, verdict |-> <<>>]
NoConv == [pc |-> "idle", file |-> NoFile, callback |-> FALSE, emitted |-> <<>>,
           lib |-> NotABlob, result |-> Ok(NoFile)]

Init ==
  /\ firebaseConfigured \in BOOLEAN
  /\ storage \in BOOLEAN
  /\ now = 0
  /\ pc = [c \in Calls |-> "idle"]
  /\ arg = [c \in Calls |-> NoArg]
  /\ fileToUpload = [c \in Calls |-> NoFile]
  /\ filePath = [c \in Calls |-> <<>>]
  /\ outcome = [c \in Calls |-> Pending]
  /\ invoked = [c \in Calls |-> NoSteps]
  /\ env = [c \in Calls |-> NoEnv]
  /\ store = {}
  /\ del = NoDelete
  /\ progress = [c \in Calls |-> NoProgress]
  /\ probe = NoProbe
  /\ conv = NoConv
  /\ admin = NoAdmin
  /\ detail = NoDetail
  /\ carousel = NoCarousel
  /\ media = NoMedia


\* ---------------------------------------------------------------- actions
ErrNotConfigured ==
  <<"Firebase is not configured. Please check your environment variables.">>
ErrNoStorage == <<"Firebase Storage is not initialized">>
ErrDeleteNotConfigured == <<"Firebase Storage is not configured">>
ErrInvalidURL == <<"Invalid Firebase Storage URL">>

\* ValidateAndStart with fileToUpload kept in one variable of the module that
\* all calls write.
ValidateAndStart_SharedFile(c, a, f, steps, answers, token) ==
  LET verdict == validateFile(f, a.type)
      validated == [steps EXCEPT !.validate = @ + 1]
  IN /\ fileToUpload' = [d \in Calls |-> f]
     /\ IF verdict # <<>>
        THEN /\ pc' = [pc EXCEPT ![c] = "done"]
             /\ outcome' = [outcome EXCEPT ![c] = Rejected(verdict)]
             /\ invoked' = [invoked EXCEPT ![c] = validated]
             /\ env' = [env EXCEPT ![c] = answers]
             /\ UNCHANGED filePath
        ELSE /\ pc' = [pc EXCEPT ![c] = "transferring"]
             /\ filePath' = [filePath EXCEPT ![c] = generateFilePath(f, a.folder, now, token)]
             /\ invoked' = [invoked EXCEPT ![c] =
                              [validated EXCEPT !.genpath = @ + 1, !.upload = @ + 1]]
             /\ env' = [env EXCEPT ![c] =
                          [answers EXCEPT !.timestamp = now, !.random = token]]
             /\ UNCHANGED outcome

\* uploadFile from validateFile to the returned promise, with fileToUpload = f:
\* validate, generate the path, create the reference, start the transfer.
ValidateAndStart(c, a, f, steps, answers, token) ==
  LET verdict == validateFile(f, a.type)
      validated == [steps EXCEPT !.validate = @ + 1]
  IN /\ fileToUpload' = [fileToUpload EXCEPT ![c] = f]
     /\ IF verdict # <<>>
        THEN /\ pc' = [pc EXCEPT ![c] = "done"]
             /\ outcome' = [outcome EXCEPT ![c] = Rejected(verdict)]
             /\ invoked' = [invoked EXCEPT ![c] = validated]
             /\ env' = [env EXCEPT ![c] = answers]
             /\ UNCHANGED filePath
        ELSE /\ pc' = [pc EXCEPT ![c] = "transferring"]
             /\ filePath' = [filePath EXCEPT ![c] = generateFilePath(f, a.folder, now, token)]
             /\ invoked' = [invoked EXCEPT ![c] =
                              [validated EXCEPT !.genpath = @ + 1, !.upload = @ + 1]]
             /\ env' = [env EXCEPT ![c] =
                          [answers EXCEPT !.timestamp = now, !.random = token]]
             /\ UNCHANGED outcome

\* uploadFile(file, {type, folder}) up to its first suspension point.
UploadFile(c, file, type) ==
  LET a == [file |-> file, type |-> type, folder |-> DefaultFolder(type)]
  IN /\ pc[c] = "idle"
     /\ arg' = [arg EXCEPT ![c] = a]
     /\ UNCHANGED <<progress, others>>
     /\ UNCHANGED <<firebaseConfigured, storage, now, store, del>>
     /\ IF ~firebaseConfigured \/ ~storage
        THEN /\ pc' = [pc EXCEPT ![c] = "done"]
             /\ outcome' = [outcome EXCEPT ![c] =
                   Rejected(IF ~firebaseConfigured THEN ErrNotConfigured ELSE ErrNoStorage)]
             /\ UNCHANGED <<fileToUpload, filePath, invoked, env>>
        ELSE IF type = "image" /\ isHEICFile(file)
        THEN /\ pc' = [pc EXCEPT ![c] = "converting"]
             /\ fileToUpload' = [fileToUpload EXCEPT ![c] = file]
             /\ invoked' = [invoked EXCEPT ![c].convert = @ + 1]
             /\ UNCHANGED <<filePath, outcome, env>>
        ELSE \E token \in Tokens :
               ValidateAndStart(c, a, file, invoked[c], env[c], token)

\* ConversionSettles with a catch block that carries on with the original file.
ConversionSettles_Swallow(c, r) ==
  LET converted == convertHEICToJPEG(arg[c].file, r)
      answers == [env[c] EXCEPT !.lib = r, !.asked = TRUE]
  IN /\ pc[c] = "converting"
     /\ UNCHANGED <<progress, others>>
     /\ UNCHANGED <<firebaseConfigured, storage, now, arg, store, del>>
     /\ \E token \in Tokens :
          ValidateAndStart(c, arg[c], IF converted.ok THEN converted.value ELSE arg[c].file,
                           invoked[c], answers, token)

\* The awaited heic2any call settles with r; uploadFile runs on from there.
ConversionSettles(c, r) ==
  LET converted == convertHEICToJPEG(arg[c].file, r)
      answers == [env[c] EXCEPT !.lib = r, !.asked = TRUE]
  IN /\ pc[c] = "converting"
     /\ UNCHANGED <<progress, others>>
     /\ UNCHANGED <<firebaseConfigured, storage, now, arg, store, del>>
     /\ IF converted.ok
        THEN \E token \in Tokens :
               ValidateAndStart(c, arg[c], converted.value, invoked[c], answers, token)
        ELSE /\ pc' = [pc EXCEPT ![c] = "done"]
             /\ outcome' = [outcome EXCEPT ![c] =
                   Rejected(IF converted.error # <<>> THEN converted.error
                            ELSE getImageFormatError(arg[c].file))]
             /\ env' = [env EXCEPT ![c] = answers]
             /\ UNCHANGED <<fileToUpload, filePath, invoked>>

\* An error observer that starts the transfer again instead of rejecting.
TransferError_Retry(c, e) ==
  /\ pc[c] = "transferring"
  /\ invoked' = [invoked EXCEPT ![c].upload = @ + 1]
  /\ env' = [env EXCEPT ![c].transfer = e]
  /\ UNCHANGED <<progress, others>>
  /\ UNCHANGED <<firebaseConfigured, storage, now, pc, arg, fileToUpload, filePath,
                 outcome, store, del>>

\* An error observer that returns without rejecting: the promise stays pending.
TransferError_NoReject(c, e) ==
  /\ pc[c] = "transferring"
  /\ pc' = [pc EXCEPT ![c] = "done"]
  /\ env' = [env EXCEPT ![c].transfer = e]
  /\ UNCHANGED <<progress, others>>
  /\ UNCHANGED <<firebaseConfigured, storage, now, arg, fileToUpload, filePath,
                 outcome, invoked, store, del>>

\* The transfer's error observer: reject(error).
TransferError(c, e) ==
  /\ pc[c] = "transferring"
  /\ pc' = [pc EXCEPT ![c] = "done"]
  /\ outcome' = [outcome EXCEPT ![c] = Rejected(<<e>>)]
  /\ env' = [env EXCEPT ![c].transfer = e]
  /\ UNCHANGED <<progress, others>>
  /\ UNCHANGED <<firebaseConfigured, storage, now, arg, fileToUpload, filePath,
                 invoked, store, del>>

\* The transfer finishes: the object is stored under filePath (replacing what
\* was there), and the completion observer awaits getDownloadURL.
TransferComplete(c) ==
  /\ pc[c] = "transferring"
  /\ pc' = [pc EXCEPT ![c] = "gettingURL"]
  /\ store' = {o \in store : o.path # filePath[c]}
                \cup {[path |-> filePath[c], file |-> fileToUpload[c], by |-> c]}
  /\ env' = [env EXCEPT ![c].transfer = "complete"]
  /\ UNCHANGED <<progress, others>>
  /\ UNCHANGED <<firebaseConfigured, storage, now, arg, fileToUpload, filePath,
                 outcome, invoked, del>>

GetDownloadURLResolves(c) ==
  /\ pc[c] = "gettingURL"
  /\ pc' = [pc EXCEPT ![c] = "done"]
  /\ outcome' = [outcome EXCEPT ![c] = Resolved(DownloadURL(filePath[c]))]
  /\ env' = [env EXCEPT ![c].url = "ok"]
  /\ UNCHANGED <<progress, others>>
  /\ UNCHANGED <<firebaseConfigured, storage, now, arg, fileToUpload, filePath,
                 invoked, store, del>>

\* A completion observer that swallows the failure of getDownloadURL.
GetDownloadURLRejects_Swallow(c, e) ==
  /\ pc[c] = "gettingURL"
  /\ pc' = [pc EXCEPT ![c] = "done"]
  /\ env' = [env EXCEPT ![c].url = e]
  /\ UNCHANGED <<progress, others>>
  /\ UNCHANGED <<firebaseConfigured, storage, now, arg, fileToUpload, filePath,
                 outcome, invoked, store, del>>

GetDownloadURLRejects(c, e) ==
  /\ pc[c] = "gettingURL"
  /\ pc' = [pc EXCEPT ![c] = "done"]
  /\ outcome' = [outcome EXCEPT ![c] = Rejected(<<e>>)]
  /\ env' = [env EXCEPT ![c].url = e]
  /\ UNCHANGED <<progress, others>>
  /\ UNCHANGED <<firebaseConfigured, storage, now, arg, fileToUpload, filePath,
                 invoked, store, del>>

\* Math.round((bytesTransferred / totalBytes) * 100); 0 / 0 is NaN, and
\* Math.round(NaN) is NaN.
Percent(bytesTransferred, totalBytes) ==
  IF totalBytes = 0
  THEN [emitted |-> TRUE, nan |-> TRUE, value |-> 0]
  ELSE [emitted |-> TRUE, nan |-> FALSE,
        value |-> (200 * bytesTransferred + totalBytes) \div (2 * totalBytes)]

\* A state_changed event of the transfer: the snapshot observer hands the
\* rounded percentage to onProgress.
TransferProgress(c, bytesTransferred) ==
  /\ pc[c] = "transferring"
  /\ bytesTransferred <= fileToUpload[c].size * ChunksPerMB
  /\ progress' = [progress EXCEPT ![c] =
                     Percent(bytesTransferred, fileToUpload[c].size * ChunksPerMB)]
  /\ UNCHANGED others
  /\ UNCHANGED <<firebaseConfigured, storage, now, pc, arg, fileToUpload, filePath,
                 outcome, invoked, env, store, del>>

\* deleteFile(fileUrl); deleteObject answers r when it is reached.
DeleteFile(fileUrl, r) ==
  LET url == ParseURL(fileUrl)
      pathMatch == MatchStoragePath(url.pathname)
      path == decodeURIComponent(pathMatch)
      call == [NoDelete EXCEPT !.called = TRUE, !.url = fileUrl]
  IN /\ UNCHANGED <<progress, others>>
     /\ UNCHANGED <<firebaseConfigured, storage, now, pc, arg, fileToUpload, filePath,
                    outcome, invoked, env>>
     /\ IF ~firebaseConfigured \/ ~storage
        THEN del' = [call EXCEPT !.error = ErrDeleteNotConfigured] /\ UNCHANGED store
        ELSE IF ~url.ok
        THEN del' = [call EXCEPT !.error = <<"TypeError: Invalid URL">>] /\ UNCHANGED store
        ELSE IF pathMatch = <<>>
        THEN del' = [call EXCEPT !.error = ErrInvalidURL] /\ UNCHANGED store
        ELSE IF r = "ok" /\ \E o \in store : o.path = path
        THEN /\ del' = [call EXCEPT !.requests = <<path>>]
             /\ store' = {o \in store : o.path # path}
        ELSE /\ del' = [call EXCEPT !.requests = <<path>>,
                          !.error = <<IF r = "ok" THEN "storage/object-not-found" ELSE r>>]
             /\ UNCHANGED store

\* Time passes between two reads of Date.now().
Tick ==
  /\ now < MaxTime
  /\ now' = now + 1
  /\ UNCHANGED <<progress, others>>
  /\ UNCHANGED <<firebaseConfigured, storage, pc, arg, fileToUpload, filePath,
                 outcome, invoked, env, store, del>>

ResolvedURLs == {outcome[c].url : c \in {d \in Calls : outcome[d].kind = "resolved"}}

\* One call at a time together with deleteFile, over every input file.
Next ==
  \/ \E file \in InputFiles, type \in Categories : UploadFile(FirstCall, file, type)
  \/ \E r \in LibResults : ConversionSettles(FirstCall, r)
  \/ \E e \in TransportErrors : TransferError(FirstCall, e)
  \/ \E b \in 0..(MaxFileSize * ChunksPerMB) : TransferProgress(FirstCall, b)
  \/ TransferComplete(FirstCall)
  \/ GetDownloadURLResolves(FirstCall)
  \/ \E e \in TransportErrors : GetDownloadURLRejects(FirstCall, e)
  \/ \E u \in ResolvedURLs \cup ForeignStrings, r \in {"ok"} \cup TransportErrors :
       DeleteFile(u, r)
  \/ Tick

Spec == Init /\ [][Next]_vars

\* The awaited library call and the transfer always come back: the decode
\* settles, and the transfer reports completion or an error.
LibraryAnswers == WF_vars(\E r \in LibResults : ConversionSettles(FirstCall, r))
TransferAnswers ==
  WF_vars(TransferComplete(FirstCall) \/ \E e \in TransportErrors : TransferError(FirstCall, e))
\* The request for the download URL, awaited after the transfer completed.
DownloadURLAnswers ==
  WF_vars(GetDownloadURLResolves(FirstCall)
            \/ \E e \in TransportErrors : GetDownloadURLRejects(FirstCall, e))

SpecLive == Init /\ [][Next]_vars /\ LibraryAnswers /\ TransferAnswers

\* Several calls in flight, their awaited steps interleaving in any order.
NextConcurrent ==
  \/ \E c \in Calls, file \in ConcurrentFiles, type \in Categories : UploadFile(c, file, type)
  \/ \E c \in Calls, r \in LibResults : ConversionSettles(c, r)
  \/ \E c \in Calls, e \in TransportErrors : TransferError(c, e)
  \/ \E c \in Calls : TransferComplete(c)
  \/ \E c \in Calls : GetDownloadURLResolves(c)
  \/ \E c \in Calls, e \in TransportErrors : GetDownloadURLRejects(c, e)
  \/ Tick

SpecConcurrent == Init /\ [][NextConcurrent]_vars


\* ------------------------------------------- the functions called directly
UploadIdle ==
  UNCHANGED <<firebaseConfigured, storage, now, pc, arg, fileToUpload, filePath,
              outcome, invoked, env, store, del, progress>>

ValidatorNames ==
  {<<"a", e>> : e \in UnsupportedExtensions}
    \cup {<<"a", "BMP">>, <<"a", "TIFF">>, <<"a", "png">>, <<"a", "HEIC">>, <<"a">>}
ValidatorTypes == {"image/png", "image/jpeg", "image/heic", "image/bmp", "video/mp4", ""}
ValidatorFiles ==
  {File(n, t, s) : n \in ValidatorNames, t \in ValidatorTypes, s \in Sizes} \cup {NoFile}

\* isHEICFile(d)
Detect(d) ==
  LET r == isHEICFileCall(d)
  IN /\ probe' = [NoProbe EXCEPT !.fn = "isHEICFile", !.input = d,
                                 !.threw = r.threw, !.value = r.value]
     /\ UNCHANGED <<conv, pages>>
     /\ UploadIdle

\* validateFile(file, type)
Validate(file, type) ==
  /\ probe' = [NoProbe EXCEPT !.fn = "validateFile", !.input = file, !.type = type,
                              !.threw = (validateFile(file, type) # <<>>),
                              !.value = (validateFile(file, type) = <<>>),
                              !.verdict = validateFile(file, type)]
  /\ UNCHANGED <<conv, pages>>
  /\ UploadIdle

\* convertHEICToJPEG(file, onProgress) up to the awaited library call; a file
\* that is not HEIC/HEIF is returned at once.
ConvertStart(file, callback) ==
  /\ conv.pc \in {"idle", "done"}
  /\ conv' = IF ~isHEICFile(file)
             THEN [NoConv EXCEPT !.pc = "done", !.file = file, !.callback = callback,
                                 !.result = Ok(file)]
             ELSE [NoConv EXCEPT !.pc = "decoding", !.file = file, !.callback = callback,
                                 !.emitted = IF callback THEN <<10>> ELSE <<>>]
  /\ UNCHANGED <<probe, pages>>
  /\ UploadIdle

\* ConvertSettles reporting completion whether or not the decode succeeded.
ConvertSettles_AlwaysComplete(r) ==
  /\ conv.pc = "decoding"
  /\ conv' = [conv EXCEPT !.pc = "done", !.lib = r,
                          !.result = convertHEICToJPEG(conv.file, r),
                          !.emitted = IF conv.callback THEN Append(@, 100) ELSE @]
  /\ UNCHANGED <<probe, pages>>
  /\ UploadIdle

\* The library call settles with r and convertHEICToJPEG returns or throws.
ConvertSettles(r) ==
  LET converted == convertHEICToJPEG(conv.file, r)
  IN /\ conv.pc = "decoding"
     /\ conv' = [conv EXCEPT !.pc = "done", !.lib = r, !.result = converted,
                             !.emitted = IF converted.ok /\ conv.callback
                                         THEN Append(@, 100) ELSE @]
     /\ UNCHANGED <<probe, pages>>
     /\ UploadIdle

NextConverter ==
  \/ \E file \in InputFiles, callback \in BOOLEAN : ConvertStart(file, callback)
  \/ \E r \in LibResults : ConvertSettles(r)

\* ------------------------------------------------------- admin post list
AdminOnly == UploadIdle /\ UNCHANGED <<probe, conv, detail, carousel, media>>

Request(filter, page, waiter) == [filter |-> filter, page |-> page, waiter |-> waiter]

\* The requests in flight are answered in any order, so the order they are
\* listed in carries nothing: they are kept sorted.
Rank(req) ==
  (IF req.filter = "all" THEN 0 ELSE 1) * 100
    + req.page * 10
    + (CASE req.waiter = "none" -> 0 [] req.waiter = "single" -> 1 [] OTHER -> 2)
InFlight(requests, req) ==
  LET before == Cardinality({i \in 1..Len(requests) : Rank(requests[i]) <= Rank(req)})
  IN SubSeq(requests, 1, before) \o <<req>> \o SubSeq(requests, before + 1, Len(requests))

\* totalPages: derived from pagination.total in the "state" component, a
\* field of pagination in the "url" component.
TotalPages(a) == IF a.variant = "state" THEN Ceil(a.total, PageSize) ELSE a.totalPages

\* The report of the last delete handler is kept until the next event that is
\* not part of it.
Forget(a) == [a EXCEPT !.report = NoReport]

\* loadPosts() up to the awaited adminAPI.listPosts(params); waiter names the
\* delete handler that awaits this load.
LoadPosts(a, filter, page, waiter) ==
  [a EXCEPT !.loading = TRUE, !.error = FALSE,
            !.selectedPosts = IF a.variant = "url" THEN {} ELSE @,
            !.requests = InFlight(@, Request(filter, page, waiter))]

\* The rest of loadPosts() once request i is answered, and the rest of the
\* delete handler that awaited it.
ApplyResponse(a, i, answer) ==
  LET req == a.requests[i]
      r == listPosts(a.server, req.filter, req.page, answer)
      loaded ==
        [a EXCEPT !.requests = RemoveAt(@, i), !.loading = FALSE,
                  !.posts = r.data,
                  !.stale = (req.filter # a.filter \/ req.page # a.currentPage),
                  !.error = IF answer = "throw" THEN TRUE ELSE @,
                  !.total = IF a.variant = "url" /\ answer = "throw" THEN @ ELSE r.total,
                  !.totalPages = IF a.variant = "state" \/ answer = "throw" THEN @
                                 ELSE Ceil(r.total, PageSize)]
  IN IF req.waiter = "single"
     THEN [loaded EXCEPT !.deletingPostId = 0, !.op = NoOp, !.report.finished = TRUE]
     ELSE IF req.waiter = "bulk"
     THEN [loaded EXCEPT !.bulkDeleting = FALSE, !.selectedPosts = {}, !.op = NoOp,
                         !.report.finished = TRUE]
     ELSE [loaded EXCEPT !.report = NoReport]

\* The user can reach the controls: no deleting mask, no loading screen.
Interactive(a) ==
  /\ a.variant # "none"
  /\ a.deletingPostId = 0 /\ ~a.bulkDeleting
  /\ a.variant = "state" => ~a.loading
  /\ a.variant = "url" => ~(a.loading /\ a.posts = <<>>)
TableVisible(a) == Interactive(a) /\ ~a.error /\ a.posts # <<>>

\* The pages the pagination buttons lead to.
PageButtons(a) ==
  LET tp == TotalPages(a)
      cp == a.currentPage
  IN IF ~TableVisible(a) \/ tp <= 1 THEN {}
     ELSE IF a.variant = "state"
     THEN ((1..tp) \cup (IF cp # 1 THEN {cp - 1} ELSE {})
                   \cup (IF cp # tp THEN {cp + 1} ELSE {})) \cap (1..MaxPage)
     ELSE ((1..tp) \cup (IF cp # 1 THEN {1, cp - 1} ELSE {})
                   \cup (IF cp < tp THEN {cp + 1, tp} ELSE {})) \cap (1..MaxPage)

\* The component mounts and its first load starts.
Mount(v) ==
  /\ admin.variant = "none"
  /\ admin' = LoadPosts([NoAdmin EXCEPT !.variant = v, !.server = PostIds], "all", 1, "none")
  /\ AdminOnly

\* adminAPI.listPosts answers request i.
ListResponds(i, answer) ==
  /\ i \in 1..Len(admin.requests)
  /\ admin' = ApplyResponse(admin, i, answer)
  /\ AdminOnly

\* A filter tab: setFilter(f) with the two effects it triggers in the "state"
\* component, handleFilterChange(f) in the "url" component.
FilterChange(f) ==
  /\ Interactive(admin)
  /\ IF admin.variant = "state"
     THEN /\ f # admin.filter
          /\ LET first == LoadPosts(Forget([admin EXCEPT !.filter = f]), f,
                                    admin.currentPage, "none")
                 cleared == [first EXCEPT !.selectedPosts = {}]
             IN IF f # "all" /\ admin.currentPage # 1
                THEN /\ Len(admin.requests) + 2 <= MaxInFlight
                     /\ admin' = LoadPosts([cleared EXCEPT !.currentPage = 1], f, 1, "none")
                ELSE /\ Len(admin.requests) < MaxInFlight
                     /\ admin' = cleared
     ELSE /\ f # admin.filter \/ admin.currentPage # 1
          /\ Len(admin.requests) < MaxInFlight
          /\ admin' = LoadPosts(Forget([admin EXCEPT !.filter = f, !.currentPage = 1]),
                                f, 1, "none")
  /\ AdminOnly

\* handlePageChange(newPage)
PageChange(newPage) ==
  /\ newPage \in PageButtons(admin)
  /\ Len(admin.requests) < MaxInFlight
  /\ IF admin.variant = "state"
     THEN LET moved == Forget([admin EXCEPT !.currentPage = newPage, !.selectedPosts = {}])
          IN admin' = IF newPage # admin.currentPage
                      THEN LoadPosts(moved, admin.filter, newPage, "none")
                      ELSE moved
     ELSE /\ newPage # admin.currentPage
          /\ admin' = LoadPosts(Forget([admin EXCEPT !.currentPage = newPage]),
                                admin.filter, newPage, "none")
  /\ AdminOnly

\* The Retry button of the error view.
Retry ==
  /\ Interactive(admin) /\ admin.error
  /\ Len(admin.requests) < MaxInFlight
  /\ admin' = LoadPosts(Forget(admin), admin.filter, admin.currentPage, "none")
  /\ AdminOnly

\* handleSelectPost(postId)
SelectPost(postId) ==
  /\ TableVisible(admin) /\ postId \in Range(admin.posts)
  /\ admin' = Forget([admin EXCEPT !.selectedPosts = IF postId \in @ THEN @ \ {postId}
                                                     ELSE @ \cup {postId}])
  /\ AdminOnly

\* handleSelectAll
SelectAll ==
  /\ TableVisible(admin)
  /\ LET sel == admin.selectedPosts
         shownIds == Range(admin.posts)
     IN admin' = Forget(
          IF admin.variant = "state"
          THEN IF Cardinality(sel) = Len(admin.posts) /\ shownIds \subseteq sel
               THEN [admin EXCEPT !.selectedPosts = sel \ shownIds]
               ELSE [admin EXCEPT !.selectedPosts = sel \cup shownIds]
          ELSE IF Cardinality(sel) = Len(admin.posts)
               THEN [admin EXCEPT !.selectedPosts = {}]
               ELSE [admin EXCEPT !.selectedPosts = shownIds])
  /\ AdminOnly

\* handleDelete(id, title) up to the awaited adminAPI.deletePost(id).
DeleteStart(id, confirmed) ==
  /\ TableVisible(admin) /\ id \in Range(admin.posts)
  /\ Len(admin.requests) < MaxInFlight
  /\ LET called == [NoReport EXCEPT !.kind = "single", !.ids = {id}]
     IN admin' =
          IF ~confirmed
          THEN [admin EXCEPT !.report = [called EXCEPT !.finished = TRUE]]
          ELSE [admin EXCEPT !.deletingPostId = id,
                             !.op = [NoOp EXCEPT !.kind = "single", !.ids = {id},
                                                 !.total = admin.total,
                                                 !.page = admin.currentPage,
                                                 !.filter = admin.filter],
                             !.report = [called EXCEPT !.confirmed = TRUE, !.issued = <<id>>]]
  /\ AdminOnly

\* After a delete took `removed` posts away: go back to the new last page when
\* the current page lies behind it, reload the current page otherwise.
ReloadAfterDelete(a, removed) ==
  LET newTotal == a.op.total - removed
      newTotalPages == Ceil(newTotal, PageSize)
  IN IF a.op.page > newTotalPages /\ newTotalPages > 0
     THEN IF newTotalPages # a.currentPage
          THEN LoadPosts([a EXCEPT !.currentPage = newTotalPages],
                         a.filter, newTotalPages, "none")
          ELSE a
     ELSE LoadPosts(a, a.op.filter, a.op.page, "none")

\* handleDelete leaving deletingPostId set when deletePost throws.
DeleteSettles_MaskStays(result) ==
  /\ admin.op.kind = "single" /\ ~admin.op.reloading
  /\ LET id == CHOOSE i \in admin.op.ids : TRUE
         answered == [admin EXCEPT !.report.answers = <<result>>,
                                   !.report.success = IF result = "ok" THEN 1 ELSE 0,
                                   !.report.fail = IF result = "ok" THEN 0 ELSE 1]
         over == [answered EXCEPT !.deletingPostId = 0, !.op = NoOp,
                                  !.report.finished = TRUE]
     IN /\ result = "ok" => id \in admin.server
        /\ admin' =
             IF result = "throw" THEN [answered EXCEPT !.op = NoOp, !.report.finished = TRUE]
             ELSE IF result # "ok" THEN over
             ELSE IF admin.variant = "state"
             THEN LET reloaded ==
                        ReloadAfterDelete([answered EXCEPT !.server = @ \ {id},
                                                           !.selectedPosts = @ \ {id}], 1)
                  IN [reloaded EXCEPT !.deletingPostId = 0, !.op = NoOp,
                                      !.report.finished = TRUE]
             ELSE LoadPosts([answered EXCEPT !.server = @ \ {id}, !.op.reloading = TRUE],
                            admin.op.filter, admin.op.page, "single")
  /\ AdminOnly

\* adminAPI.deletePost(id) answers and handleDelete runs on.
DeleteSettles(result) ==
  /\ admin.op.kind = "single" /\ ~admin.op.reloading
  /\ LET id == CHOOSE i \in admin.op.ids : TRUE
         answered == [admin EXCEPT !.report.answers = <<result>>,
                                   !.report.success = IF result = "ok" THEN 1 ELSE 0,
                                   !.report.fail = IF result = "ok" THEN 0 ELSE 1]
         over == [answered EXCEPT !.deletingPostId = 0, !.op = NoOp,
                                  !.report.finished = TRUE]
     IN /\ result = "ok" => id \in admin.server
        /\ admin' =
             IF result # "ok" THEN over
             ELSE IF admin.variant = "state"
             THEN LET reloaded ==
                        ReloadAfterDelete([answered EXCEPT !.server = @ \ {id},
                                                           !.selectedPosts = @ \ {id}], 1)
                  IN [reloaded EXCEPT !.deletingPostId = 0, !.op = NoOp,
                                      !.report.finished = TRUE]
             ELSE LoadPosts([answered EXCEPT !.server = @ \ {id}, !.op.reloading = TRUE],
                            admin.op.filter, admin.op.page, "single")
  /\ AdminOnly

\* handleBulkDelete up to the awaited delete requests.
BulkDeleteStart(confirmed) ==
  /\ Interactive(admin)
  /\ Len(admin.requests) < MaxInFlight
  /\ LET ids == admin.selectedPosts
         called == [NoReport EXCEPT !.kind = "bulk", !.ids = ids]
     IN admin' =
          IF ids = {} \/ ~confirmed
          THEN [admin EXCEPT !.report = [called EXCEPT !.finished = TRUE]]
          ELSE [admin EXCEPT !.bulkDeleting = TRUE,
                             !.op = [NoOp EXCEPT !.kind = "bulk", !.ids = ids,
                                                 !.total = admin.total,
                                                 !.page = admin.currentPage,
                                                 !.filter = admin.filter],
                             !.report = [called EXCEPT !.confirmed = TRUE,
                                                       !.issued = Ascending(ids)]]
  /\ AdminOnly

\* The delete requests of handleBulkDelete with a request that throws
\* rejecting the whole batch.
BulkDeleteSettles_FailFast(results) ==
  /\ admin.op.kind = "bulk" /\ ~admin.op.reloading
  /\ DOMAIN results = admin.op.ids
  /\ \A id \in admin.op.ids : results[id] = "ok" => id \in admin.server
  /\ admin.variant = "url" => \A i, j \in admin.op.ids : results[i] = results[j]
  /\ LET deleted == {id \in admin.op.ids : results[id] = "ok"}
         successCount == Cardinality(deleted)
         answered == [admin EXCEPT !.report.answers = [k \in 1..Len(admin.report.issued) |->
                                                         results[admin.report.issued[k]]]]
         over == [answered EXCEPT !.bulkDeleting = FALSE, !.op = NoOp,
                                  !.report.finished = TRUE]
     IN admin' =
          IF \E id \in admin.op.ids : results[id] = "throw"
          THEN [over EXCEPT !.server = @ \ deleted]
          ELSE LET counted == [answered EXCEPT !.server = @ \ deleted,
                                               !.selectedPosts = {},
                                               !.report.success = successCount,
                                               !.report.fail = Cardinality(admin.op.ids) - successCount,
                                               !.report.counted = TRUE]
               IN [ReloadAfterDelete(counted, successCount)
                     EXCEPT !.bulkDeleting = FALSE, !.op = NoOp, !.report.finished = TRUE]
  /\ AdminOnly

\* The awaited delete requests answer and handleBulkDelete runs on: one answer
\* per post in the "state" component, one for the whole batch in the "url"
\* component.
BulkDeleteSettles(results) ==
  /\ admin.op.kind = "bulk" /\ ~admin.op.reloading
  /\ DOMAIN results = admin.op.ids
  /\ \A id \in admin.op.ids : results[id] = "ok" => id \in admin.server
  /\ admin.variant = "url" => \A i, j \in admin.op.ids : results[i] = results[j]
  /\ LET deleted == {id \in admin.op.ids : results[id] = "ok"}
         successCount == Cardinality(deleted)
         answered == [admin EXCEPT !.report.answers = [k \in 1..Len(admin.report.issued) |->
                                                         results[admin.report.issued[k]]]]
         over == [answered EXCEPT !.bulkDeleting = FALSE, !.op = NoOp,
                                  !.report.finished = TRUE]
     IN admin' =
          IF admin.variant = "state"
          THEN LET counted == [answered EXCEPT !.server = @ \ deleted,
                                               !.selectedPosts = {},
                                               !.report.success = successCount,
                                               !.report.fail = Cardinality(admin.op.ids) - successCount,
                                               !.report.counted = TRUE]
               IN [ReloadAfterDelete(counted, successCount)
                     EXCEPT !.bulkDeleting = FALSE, !.op = NoOp, !.report.finished = TRUE]
          ELSE IF deleted = {} THEN over
          ELSE LoadPosts([answered EXCEPT !.server = @ \ deleted, !.op.reloading = TRUE],
                         admin.op.filter, admin.op.page, "bulk")
  /\ AdminOnly

NextAdminList ==
  \/ \E v \in Variants : Mount(v)
  \/ \E i \in 1..MaxInFlight, answer \in Answers : ListResponds(i, answer)
  \/ \E f \in Filters : FilterChange(f)
  \/ \E newPage \in 1..MaxPage : PageChange(newPage)
  \/ Retry
  \/ \E postId \in PostIds : SelectPost(postId)
  \/ SelectAll
  \/ \E id \in PostIds, confirmed \in BOOLEAN : DeleteStart(id, confirmed)
  \/ \E result \in Answers : DeleteSettles(result)
  \/ \E confirmed \in BOOLEAN : BulkDeleteStart(confirmed)
  \/ \E S \in SUBSET PostIds : \E results \in [S -> Answers] : BulkDeleteSettles(results)

\* ---------------------------------------------------------- detail pages
DetailOnly == UploadIdle /\ UNCHANGED <<probe, conv, admin, carousel, media>>

Load(slug, stage) == [slug |-> slug, stage |-> stage]

\* loadPost up to its first await: setLoading(true); setError(null);
\* publicAPI.getPost(slug) is sent with the slug of this render.
loadPost(d, slug) ==
  [d EXCEPT !.slug = slug, !.loading = TRUE, !.error = FALSE,
            !.loads = Append(@, Load(slug, "post"))]

\* useEffect(() => { if (slug) loadPost() }, [slug]) at the first render.
OpenDetail(kind, slug) ==
  /\ detail.kind = "none"
  /\ detail' = loadPost([detail EXCEPT !.kind = kind], slug)
  /\ DetailOnly

\* The route changes to another slug while the component stays mounted (a
\* related-post link, the browser's back button): the effect runs again.
SlugChange(slug) ==
  /\ detail.kind # "none"
  /\ slug # detail.slug
  /\ Len(detail.loads) < MaxInFlight
  /\ detail' = loadPost(detail, slug)
  /\ DetailOnly

\* getPost answers load i.  A post: setPost(postData.data) and the request for
\* the related posts is sent.  No post, or a rejection (caught as null):
\* setError('Post not found') and, in finally, setLoading(false).
PostResponds(i, answer) ==
  /\ i \in 1..Len(detail.loads)
  /\ detail.loads[i].stage = "post"
  /\ detail' =
       IF answer = "ok"
       THEN [detail EXCEPT !.post = detail.loads[i].slug,
                           !.loads[i].stage = "related"]
       ELSE [detail EXCEPT !.error = TRUE, !.loading = FALSE,
                           !.loads = RemoveAt(@, i)]
  /\ DetailOnly

\* relatedData.data.slice(0, 3)
Slice(n) == IF n > RelatedLimit THEN RelatedLimit ELSE n

\* listPosts answers load i with n posts: setRelatedPosts(data.slice(0, 3)),
\* or setRelatedPosts([]) for no success, no post or a rejection; then
\* finally: setLoading(false).
RelatedResponds(i, answer, n) ==
  /\ i \in 1..Len(detail.loads)
  /\ detail.loads[i].stage = "related"
  /\ detail' =
       [detail EXCEPT
          !.relatedPosts = [for |-> detail.loads[i].slug,
                            n |-> IF answer = "ok" THEN Slice(n) ELSE 0],
          !.loading = FALSE,
          !.loads = RemoveAt(@, i)]
  /\ DetailOnly

NextDetail ==
  \/ \E kind \in DetailKinds, slug \in Slugs : OpenDetail(kind, slug)
  \/ \E slug \in Slugs : SlugChange(slug)
  \/ \E i \in 1..MaxInFlight, answer \in Answers : PostResponds(i, answer)
  \/ \E i \in 1..MaxInFlight, answer \in Answers, n \in 0..(RelatedLimit + 1) :
       RelatedResponds(i, answer, n)

\* --------------------------------------------------------- image carousel
CarouselOnly == UploadIdle /\ UNCHANGED <<probe, conv, admin, detail, media>>

\* prevIndex === 0 ? images.length - 1 : prevIndex - 1
goToPrevious(n, prevIndex) == IF prevIndex = 0 THEN n - 1 ELSE prevIndex - 1

\* prevIndex === images.length - 1 ? 0 : prevIndex + 1
goToNext(n, prevIndex) == IF prevIndex = n - 1 THEN 0 ELSE prevIndex + 1

\* JavaScript's !x for a touch position: true for null and for 0.
Not(x) == x = NoTouch \/ x = 0

Event(c, name) ==
  [name |-> name, from |-> c.currentIndex, start |-> c.touchStart, end |-> c.touchEnd,
   before |-> c.last.name, beforeFrom |-> c.last.from]

\* The component is rendered with n images: useState(0), useState(null) twice.
ShowCarousel(n) ==
  /\ carousel.n = 0
  /\ carousel' = [NoCarousel EXCEPT !.n = n]
  /\ CarouselOnly

\* The buttons and the indicators are rendered when images.length > 1.
ClickPrevious ==
  /\ carousel.n > 1
  /\ carousel' = [carousel EXCEPT !.currentIndex = goToPrevious(carousel.n, @),
                                  !.last = Event(carousel, "previous")]
  /\ CarouselOnly

ClickNext ==
  /\ carousel.n > 1
  /\ carousel' = [carousel EXCEPT !.currentIndex = goToNext(carousel.n, @),
                                  !.last = Event(carousel, "next")]
  /\ CarouselOnly

goToSlide(index) ==
  /\ carousel.n > 1
  /\ index \in 0..(carousel.n - 1)
  /\ carousel' = [carousel EXCEPT !.currentIndex = index,
                                  !.last = Event(carousel, "slide")]
  /\ CarouselOnly

onTouchStart(x) ==
  /\ carousel.n > 0
  /\ carousel' = [carousel EXCEPT !.touchEnd = NoTouch, !.touchStart = x,
                                  !.last = Event(carousel, "touchStart")]
  /\ CarouselOnly

onTouchMove(x) ==
  /\ carousel.n > 0
  /\ carousel.last.name \in {"touchStart", "touchMove"}
  /\ carousel' = [carousel EXCEPT !.touchEnd = x,
                                  !.last = Event(carousel, "touchMove")]
  /\ CarouselOnly

\* if (!touchStart || !touchEnd) return; then the distance decides.
onTouchEnd ==
  /\ carousel.n > 0
  /\ carousel.last.name \in {"touchStart", "touchMove"}
  /\ LET distance == carousel.touchStart - carousel.touchEnd
         index == IF Not(carousel.touchStart) \/ Not(carousel.touchEnd)
                    THEN carousel.currentIndex
                  ELSE IF distance > minSwipeDistance
                    THEN goToNext(carousel.n, carousel.currentIndex)
                  ELSE IF distance < -minSwipeDistance
                    THEN goToPrevious(carousel.n, carousel.currentIndex)
                  ELSE carousel.currentIndex
     IN carousel' = [carousel EXCEPT !.currentIndex = index,
                                     !.last = Event(carousel, "touchEnd")]
  /\ CarouselOnly

NextCarousel ==
  \/ \E n \in 1..MaxImages : ShowCarousel(n)
  \/ ClickPrevious
  \/ ClickNext
  \/ \E index \in 0..(MaxImages - 1) : goToSlide(index)
  \/ \E x \in TouchXs : onTouchStart(x)
  \/ \E x \in TouchXs : onTouchMove(x)
  \/ onTouchEnd

\* ------------------------------------------------------- media URL handling
MediaOnly == UploadIdle /\ UNCHANGED <<probe, conv, admin, detail, carousel>>

Evaluated(fn, post, r) ==
  [fn |-> fn, post |-> post, error |-> r.error, urls |-> r.urls, items |-> r.items,
   image |-> r.image]

\* A detail page renders the media carousel block for its post.
RenderMediaCarousel(post) ==
  /\ media.fn = "none"
  /\ media' = Evaluated("carousel", post, MediaCarouselBlock(post))
  /\ MediaOnly

\* NewsDetail computes the image of its social-preview tags for its post.
RenderOgImage(post) ==
  /\ media.fn = "none"
  /\ media' = Evaluated("ogImage", post, OgImage(post))
  /\ MediaOnly

\* The page is left; the next one renders another post.
LeavePost ==
  /\ media.fn # "none"
  /\ media' = NoMedia
  /\ MediaOnly

NextMedia ==
  \/ \E post \in DetailPosts : RenderMediaCarousel(post)
  \/ \E post \in DetailPosts : RenderOgImage(post)
  \/ LeavePost

InitFunctions == Init /\ firebaseConfigured /\ storage

NextFunctions ==
  \/ \E d \in Descriptors : Detect(d)
  \/ \E file \in ValidatorFiles, type \in Categories : Validate(file, type)

SpecFunctions == InitFunctions /\ [][NextFunctions]_vars

SpecConverter == InitFunctions /\ [][NextConverter]_vars

SpecAdminList == InitFunctions /\ [][NextAdminList]_vars

SpecDetail == InitFunctions /\ [][NextDetail]_vars

SpecCarousel == InitFunctions /\ [][NextCarousel]_vars

SpecMedia == InitFunctions /\ [][NextMedia]_vars

\* ------------------------------------------------------------- properties
Started(c) == pc[c] # "idle"
Validated(c) == invoked[c].validate > 0
Ceiling(type) == IF type = "video" THEN MAX_VIDEO_SIZE ELSE MAX_IMAGE_SIZE
EndsIn(name, ext) == Len(name) > 1 /\ ToLowerCase(Last(name)) = ext
\* The call asked the converter and the converter returned a file.
Converted(c) ==
  /\ env[c].asked
  /\ convertHEICToJPEG(arg[c].file, env[c].lib).ok

\* C1: deleteFile with a URL that uploadFile resolved with parses the storage
\* path out of the URL, issues exactly one delete for that path and completes
\* without error.
C1_DeleteRoundTrip ==
  \A c \in Calls :
    (del.called /\ outcome[c].kind = "resolved" /\ del.url = outcome[c].url)
      => (del.requests = <<filePath[c]>> /\ del.error = <<>>)

\* C2: a call resolves with the URL of the object it stored, or it rejects and
\* no object stored by that call is in the object store.
C2_ObjectOrError ==
  \A c \in Calls :
    /\ outcome[c].kind = "resolved" => outcome[c].url = DownloadURL(filePath[c])
    /\ outcome[c].kind = "rejected" => \A o \in store : o.by # c

C4_ConvertedIsJpg ==
  \A c \in Calls :
    (arg[c].type = "image" /\ isHEICFile(arg[c].file) /\ Converted(c))
      => /\ EndsIn(fileToUpload[c].name, "jpg")
         /\ fileToUpload[c].type = "image/jpeg"

\* C5: a call whose file, after any conversion, is larger than the ceiling of
\* its category rejects in validation, and no storage path, reference or
\* transfer is created in that call.
C5_OversizeNeverUploaded ==
  \A c \in Calls :
    (Validated(c) /\ fileToUpload[c].size > Ceiling(arg[c].type))
      => /\ pc[c] = "done"
         /\ outcome[c] = Rejected(SizeError(Ceiling(arg[c].type)))
         /\ invoked[c].genpath = 0 /\ invoked[c].upload = 0
         /\ filePath[c] = <<>>
         /\ \A o \in store : o.by # c

C5_Witness ==
  \E c \in Calls :
    /\ Validated(c) /\ Converted(c)
    /\ fileToUpload[c].size > Ceiling(arg[c].type)
    /\ arg[c].file.size <= Ceiling(arg[c].type)

\* C6: when the conversion of an image upload fails, the call rejects with the
\* converter's error and validateFile, generateFilePath and the uploader are
\* not invoked.
C6_ConversionFailureAborts ==
  \A c \in Calls :
    (arg[c].type = "image" /\ isHEICFile(arg[c].file) /\ env[c].asked /\ ~Converted(c))
      => /\ pc[c] = "done"
         /\ outcome[c] = Rejected(convertHEICToJPEG(arg[c].file, env[c].lib).error)
         /\ invoked[c].validate = 0 /\ invoked[c].genpath = 0 /\ invoked[c].upload = 0
         /\ filePath[c] = <<>>

C6_Witness ==
  \E c \in Calls :
    /\ arg[c].type = "image" /\ isHEICFile(arg[c].file)
    /\ env[c].asked /\ env[c].lib.kind = "throw"
    /\ outcome[c].kind = "rejected"

IsBmpImageUpload(c) ==
  Started(c) /\ arg[c].type = "image" /\ EndsIn(arg[c].file.name, "bmp")
BmpFormatError == <<"The ", "bmp", " format is not supported for web display.">>

\* C7 as claimed: an image upload of a *.bmp file (storage being configured),
\* whatever its MIME type and size, rejects with the unsupported-format error,
\* and neither the converter nor the uploader is invoked.
C7_BmpAlwaysFormatError ==
  \A c \in Calls :
    (IsBmpImageUpload(c) /\ firebaseConfigured /\ storage)
      => /\ outcome[c] = Rejected(BmpFormatError)
         /\ invoked[c].convert = 0 /\ invoked[c].upload = 0

\* C7 amended: an image upload of a *.bmp file never reaches the uploader and
\* never resolves; with storage configured, a MIME type that is not HEIC/HEIF
\* and a size within the image ceiling it rejects with the unsupported-format
\* error and the converter is not invoked.
C7_BmpNeverUploaded ==
  \A c \in Calls :
    IsBmpImageUpload(c)
      => /\ invoked[c].upload = 0 /\ invoked[c].genpath = 0
         /\ outcome[c].kind # "resolved"
         /\ pc[c] \in {"converting", "done"}
         /\ (/\ firebaseConfigured /\ storage
             /\ ~isHEICFile(arg[c].file)
             /\ arg[c].file.size <= MAX_IMAGE_SIZE)
              => /\ outcome[c] = Rejected(BmpFormatError)
                 /\ invoked[c].convert = 0

C7_Witness ==
  \E c \in Calls :
    /\ IsBmpImageUpload(c) /\ firebaseConfigured /\ storage
    /\ arg[c].file.type = "image/png" /\ arg[c].file.size <= MAX_IMAGE_SIZE
    /\ outcome[c] = Rejected(BmpFormatError)

HasPath(c) == filePath[c] # <<>>

C9_NoRetry ==
  \A c \in Calls :
    /\ invoked[c].convert <= 1 /\ invoked[c].validate <= 1
    /\ invoked[c].genpath <= 1 /\ invoked[c].upload <= 1
    /\ invoked[c].upload <= invoked[c].validate
    /\ outcome[c].kind = "rejected" => pc[c] = "done"
    /\ env[c].transfer \in TransportErrors => outcome[c] = Rejected(<<env[c].transfer>>)
    /\ (Validated(c) /\ validateFile(fileToUpload[c], arg[c].type) # <<>>)
         => (outcome[c].kind = "rejected" /\ invoked[c].upload = 0)

C9_Witness ==
  \E c \in Calls :
    /\ invoked[c].convert = 1 /\ invoked[c].validate = 1 /\ invoked[c].upload = 1
    /\ env[c].transfer \in TransportErrors
    /\ outcome[c].kind = "rejected"

\* uploadFile run on its own with the answers the call received.
SoloFile(a, answers) ==
  IF a.type = "image" /\ isHEICFile(a.file)
  THEN convertHEICToJPEG(a.file, answers.lib)
  ELSE Ok(a.file)

SoloPath(a, answers) ==
  generateFilePath(SoloFile(a, answers).value, a.folder, answers.timestamp, answers.random)

SoloOutcome(a, answers) ==
  LET f == SoloFile(a, answers)
  IN IF ~firebaseConfigured THEN Rejected(ErrNotConfigured)
     ELSE IF ~storage THEN Rejected(ErrNoStorage)
     ELSE IF ~f.ok THEN Rejected(f.error)
     ELSE IF validateFile(f.value, a.type) # <<>> THEN Rejected(validateFile(f.value, a.type))
     ELSE IF answers.transfer \in TransportErrors THEN Rejected(<<answers.transfer>>)
     ELSE IF answers.url \in TransportErrors THEN Rejected(<<answers.url>>)
     ELSE Resolved(DownloadURL(SoloPath(a, answers)))

\* C10: with several calls in flight and their steps interleaved, each call's
\* outcome, uploaded file and path are those of the same call run alone with
\* the same answers from the library, the clock and the transport.
C10_CallsIndependent ==
  \A c \in Calls :
    /\ pc[c] = "done" => outcome[c] = SoloOutcome(arg[c], env[c])
    /\ pc[c] # "done" => outcome[c] = Pending
    /\ HasPath(c) => /\ fileToUpload[c] = SoloFile(arg[c], env[c]).value
                     /\ filePath[c] = SoloPath(arg[c], env[c])
    /\ \A o \in store : o.by = c => (o.path = filePath[c] /\ o.file = fileToUpload[c])

C10_Witness ==
  \E c, d \in Calls :
    /\ c # d
    /\ pc[c] = "done" /\ outcome[c].kind = "resolved" /\ env[c].asked
    /\ pc[d] = "gettingURL" /\ env[d].timestamp < env[c].timestamp


HEICSpellings == {"heic", "HEIC", "Heic", "heif", "HEIF", "hif", "HIF"}
HEICMimeSpellings ==
  {"image/heic", "IMAGE/HEIC", "image/heif", "image/heic-sequence", "image/heif-sequence"}
Detected == probe.fn = "isHEICFile"
NamedHEIC(d) == d.hasName /\ Len(d.name) > 1 /\ Last(d.name) \in HEICSpellings
TypedHEIC(d) == d.hasType /\ d.type \in HEICMimeSpellings

\* C11: isHEICFile is true for every file whose name ends in .heic, .heif or
\* .hif in any letter case, and false for every file with another extension
\* whose MIME type (compared without regard to case) is not a HEIC/HEIF type.
C11_DetectorByExtensionOrMime ==
  (Detected /\ ~probe.input.absent /\ probe.input.hasName)
    => /\ ~probe.threw
       /\ NamedHEIC(probe.input) => probe.value
       /\ (~NamedHEIC(probe.input) /\ ~TypedHEIC(probe.input)) => ~probe.value

C11_Witness ==
  /\ Detected /\ probe.input.name = <<"a", "HEIC">> /\ probe.input.type = "image/jpeg"
  /\ probe.value

\* C12: isHEICFile returns a boolean and raises no error for every input, an
\* absent file and a descriptor without name or type included; for an absent
\* file it returns false.
C12_DetectorTotal ==
  Detected => /\ ~probe.threw
              /\ probe.input.absent => ~probe.value


Checked == probe.fn = "validateFile" /\ ~probe.input.absent
BlocklistSpellings ==
  {"tiff", "tif", "bmp", "raw", "cr2", "nef", "orf", "arw", "BMP", "TIFF"}
Blocklisted(file) == Len(file.name) > 1 /\ Last(file.name) \in BlocklistSpellings
WithinCeiling(file, type) == file.size <= Ceiling(type)
Allowed(type) == IF type = "video" THEN ALLOWED_VIDEO_TYPES ELSE ALLOWED_IMAGE_TYPES
HEICMessage == <<"HEIC images are not supported. Please convert to JPEG or PNG format.">>
GenericImageMessage ==
  <<"Unsupported image format. Please use JPEG, PNG, GIF, or WebP format.">>
AllowedTypesMessage == <<"File type not allowed. Allowed types: ", "video/mp4, video/webm">>

\* C13: for category image validateFile rejects every file within the size
\* ceiling whose extension, lowercased, is in the blocklist, whatever its MIME
\* type; for category video the extension plays no part.
C13_BlocklistForImagesOnly ==
  (Checked /\ WithinCeiling(probe.input, probe.type) /\ Blocklisted(probe.input))
    => /\ probe.type = "image"
         => (probe.threw /\ probe.verdict # <<>>
             /\ probe.verdict # SizeError(MAX_IMAGE_SIZE))
       /\ probe.type = "video"
         => (probe.value <=> probe.input.type \in ALLOWED_VIDEO_TYPES)

C13_Witness ==
  /\ Checked /\ probe.type = "image" /\ probe.input.name = <<"a", "orf">>
  /\ probe.input.type = "image/png" /\ probe.input.size <= MAX_IMAGE_SIZE
  /\ probe.threw

\* The file was rejected by the MIME check, the checks before it having passed.
RejectedOnMime ==
  /\ Checked /\ WithinCeiling(probe.input, probe.type)
  /\ ~(probe.type = "image" /\ Blocklisted(probe.input))
  /\ probe.input.type \notin Allowed(probe.type)
SpelledHEIC(file) ==
  \/ Len(file.name) > 1 /\ Last(file.name) \in HEICSpellings
  \/ file.type \in HEICMimeSpellings

\* C14 as claimed: a file is accepted only with a MIME type of its category's
\* allow-list, and a rejection by that check carries the HEIC/HEIF message when
\* the file is HEIC/HEIF, in either category, and a generic message otherwise.
C14_HEICMessageEitherCategory ==
  /\ (Checked /\ probe.value) => probe.input.type \in Allowed(probe.type)
  /\ RejectedOnMime
       => /\ probe.threw
          /\ probe.verdict = IF SpelledHEIC(probe.input) THEN HEICMessage
                             ELSE IF probe.type = "image" THEN GenericImageMessage
                             ELSE AllowedTypesMessage

\* C14 amended: a file is accepted only with a MIME type of its category's
\* allow-list; a rejection by that check carries, for category image, the
\* HEIC/HEIF message when the file is HEIC/HEIF and the generic image message
\* otherwise, and for category video always the allowed-types message.
C14_HEICMessageForImages ==
  /\ (Checked /\ probe.value) => probe.input.type \in Allowed(probe.type)
  /\ RejectedOnMime
       => /\ probe.threw
          /\ probe.verdict = IF probe.type = "video" THEN AllowedTypesMessage
                             ELSE IF SpelledHEIC(probe.input) THEN HEICMessage
                             ELSE GenericImageMessage

C14_Witness ==
  /\ RejectedOnMime /\ probe.type = "image"
  /\ probe.input.name = <<"a", "HEIC">> /\ probe.verdict = HEICMessage


DeletedForeign == del.called /\ del.url \in ForeignStrings /\ firebaseConfigured /\ storage
IsURL(str) == str[1] \in {"https:", "http:"}

\* C15 as claimed: deleteFile with a string that is no object-store download
\* URL (storage being configured) fails with the invalid-storage-reference
\* error and issues no delete request.
C15_ForeignAlwaysInvalidReference ==
  DeletedForeign => (del.error = ErrInvalidURL /\ del.requests = <<>>)

\* C15 amended: deleteFile with a string that is no object-store download URL
\* fails and issues no delete request; the error is the invalid-storage-
\* reference error for a URL and the URL parser's TypeError for a string that
\* is no URL.
C15_ForeignFailsWithoutDelete ==
  DeletedForeign
    => /\ del.requests = <<>>
       /\ del.error = IF IsURL(del.url) THEN ErrInvalidURL
                      ELSE <<"TypeError: Invalid URL">>

C15_Witness ==
  /\ DeletedForeign /\ IsURL(del.url) /\ \E i \in 1..Len(del.url) : del.url[i] = "o"
  /\ del.error = ErrInvalidURL /\ store # {}


Contains(message, piece) == \E i \in 1..Len(message) : message[i] = piece
TransferFailed(c) == env[c].transfer \in TransportErrors
URLFailed(c) == env[c].url \in TransportErrors

\* C16: when the transfer reports an error, or getDownloadURL fails after the
\* transfer completed, the call has ended rejected with an error that carries
\* the transport error's message; it neither resolves nor stays pending.
C16_TransportFailureRejects ==
  \A c \in Calls :
    /\ TransferFailed(c)
         => /\ pc[c] = "done" /\ outcome[c].kind = "rejected"
            /\ Contains(outcome[c].error, env[c].transfer)
    /\ URLFailed(c)
         => /\ pc[c] = "done" /\ outcome[c].kind = "rejected"
            /\ Contains(outcome[c].error, env[c].url)
    /\ outcome[c].kind = "resolved" => (~TransferFailed(c) /\ ~URLFailed(c))

C16_Witness ==
  \E c \in Calls :
    /\ URLFailed(c) /\ env[c].transfer = "complete"
    /\ outcome[c].kind = "rejected"

\* C17: every value handed to onProgress is an integer from 0 to 100, for
\* every transfer event, those of a zero-byte file included.
C17_ProgressIsPercentage ==
  \A c \in Calls :
    progress[c].emitted => (~progress[c].nan /\ progress[c].value \in 0..100)


\* C18: for an image upload in which conversion was applied, the storage path
\* is {folder}/{timestamp}_{randomToken}.jpg.
C18_ConvertedPathIsJpg ==
  \A c \in Calls :
    (arg[c].type = "image" /\ isHEICFile(arg[c].file) /\ Converted(c) /\ HasPath(c))
      => filePath[c] = <<arg[c].folder, "/", ToString(env[c].timestamp), "_",
                         ToString(env[c].random), ".", "jpg">>

LibraryFailed(r) ==
  \/ r.kind \in {"throw", "other"}
  \/ r.kind = "array" /\ r.frames = <<>>
OriginalErrorText(r) ==
  IF r.kind = "throw" THEN r.msg ELSE "Conversion failed: Invalid blob returned"
ManualInstruction == ". Please convert the image to JPEG or PNG format manually. "
Decoded == conv.pc = "done" /\ isHEICFile(conv.file)

\* C19: when the library raises an error or returns no usable image data,
\* convertHEICToJPEG throws an error holding the original error text and the
\* manual-conversion instruction and returns no file; of several frames the
\* returned file is built from the first.
C19_DecodeFailureIsConversionError ==
  Decoded
    => /\ LibraryFailed(conv.lib)
            => /\ ~conv.result.ok /\ conv.result.value = NoFile
               /\ Contains(conv.result.error, OriginalErrorText(conv.lib))
               /\ Contains(conv.result.error, ManualInstruction)
       /\ ~LibraryFailed(conv.lib)
            => /\ conv.result.ok
               /\ conv.result.value.size = conv.lib.frames[1]
               /\ conv.result.value.type = "image/jpeg"

C19_Witness ==
  /\ Decoded /\ conv.lib.kind = "throw" /\ ~conv.result.ok

\* C20: with a progress callback, a HEIC/HEIF file gets 10 before the decode
\* and 100 after it succeeded, and nothing else; after a failed decode 100 is
\* never emitted; a file that is not HEIC/HEIF gets no callback and is returned
\* as it is.
C20_ConversionProgress ==
  /\ (conv.pc = "decoding" /\ conv.callback) => conv.emitted = <<10>>
  /\ (Decoded /\ conv.callback /\ conv.result.ok) => conv.emitted = <<10, 100>>
  /\ (Decoded /\ conv.callback /\ ~conv.result.ok) => conv.emitted = <<10>>
  /\ (conv.pc = "done" /\ ~isHEICFile(conv.file))
       => (conv.emitted = <<>> /\ conv.result = Ok(conv.file))
  /\ ~conv.callback => conv.emitted = <<>>

C20_Witness ==
  /\ Decoded /\ conv.callback /\ conv.lib.kind = "array"
  /\ conv.emitted = <<10, 100>>


Settled(c) == pc[c] = "done" /\ outcome[c].kind \in {"resolved", "rejected"}

\* C21 as claimed: if the decode and the transfer always come back, every
\* started uploadFile call eventually resolves or rejects.
C21_StartedEventuallySettles ==
  \A c \in Calls : Started(c) ~> Settled(c)

\* C21 amended: if the decode, the transfer and the request for the download
\* URL always come back, every started uploadFile call eventually resolves or
\* rejects.
C21_SettlesIfDownloadURLAnswers ==
  DownloadURLAnswers => \A c \in Calls : Started(c) ~> Settled(c)

C21_Witness ==
  \E c \in Calls :
    /\ Settled(c) /\ outcome[c].kind = "resolved"
    /\ env[c].asked /\ env[c].transfer = "complete" /\ progress[c].emitted


ValidatorCalled == probe.fn = "validateFile"
FormatMessages ==
  {HEICMessage, GenericImageMessage}
    \cup {<<"The ", e, " format is not supported for web display.">> :
            e \in {"tiff", "tif", "bmp", "raw", "cr2", "nef"}}

\* C22: validateFile checks, in this order, that the file is present, that its
\* size is within the ceiling of the category, that its extension is not
\* blocklisted (images only) and that its MIME type is allowed, and rejects with
\* the error of the first check that fails; it returns true only when all pass.
C22_FirstFailingCheckDecides ==
  ValidatorCalled
    => LET file == probe.input
           type == probe.type
       IN /\ file.absent => probe.verdict = <<"No file provided">>
          /\ (~file.absent /\ ~WithinCeiling(file, type))
               => probe.verdict = SizeError(Ceiling(type))
          /\ (~file.absent /\ WithinCeiling(file, type) /\ type = "image"
                /\ (Blocklisted(file) \/ file.type \notin Allowed(type)))
               => probe.verdict \in FormatMessages
          /\ (~file.absent /\ WithinCeiling(file, type) /\ type = "video"
                /\ file.type \notin Allowed(type))
               => probe.verdict = AllowedTypesMessage
          /\ probe.value
               <=> /\ ~file.absent /\ WithinCeiling(file, type)
                   /\ ~(type = "image" /\ Blocklisted(file))
                   /\ file.type \in Allowed(type)
          /\ probe.threw <=> ~probe.value

C22_Witness ==
  /\ Checked /\ probe.type = "image" /\ ~WithinCeiling(probe.input, "image")
  /\ probe.input.name = <<"a", "bmp">> /\ probe.input.type = "image/bmp"
  /\ probe.verdict = SizeError(MAX_IMAGE_SIZE)


\* Nothing is in flight: no list request and no delete handler.
Quiescent ==
  /\ admin.variant # "none"
  /\ admin.requests = <<>> /\ admin.op.kind = "none"
\* max(1, totalPages) of the list as the backend holds it.
LastPage ==
  LET pagesNow == Ceil(Cardinality(Matching(admin.server, admin.filter)), PageSize)
  IN IF pagesNow > 1 THEN pagesNow ELSE 1
Displayed == Range(admin.posts)

DeleteFinished ==
  /\ admin.report.finished /\ admin.report.confirmed /\ admin.report.success > 0

\* C23: once a delete has finished and nothing is in flight, the current page
\* is within 1..max(1, totalPages) of the list as it is after the delete.
C23_PageWithinList ==
  (Quiescent /\ DeleteFinished) => admin.currentPage \in 1..LastPage


\* C24: whenever a single delete or a bulk delete has finished, however it
\* went, deletingPostId is null and bulkDeleting is false.
C24_DeleteFlagsReset ==
  (admin.report.finished \/ admin.op.kind = "none")
    => (admin.deletingPostId = 0 /\ ~admin.bulkDeleting)

C24_Witness ==
  /\ admin.variant = "url" /\ admin.report.kind = "single" /\ DeleteFinished
  /\ admin.error /\ admin.deletingPostId = 0

\* C25: whenever the user can reach the controls, every selected id is the id
\* of a displayed post.
C25_SelectionIsDisplayed ==
  Interactive(admin) => admin.selectedPosts \subseteq Displayed

BulkCalled ==
  /\ admin.variant = "state" /\ admin.report.kind = "bulk" /\ admin.report.finished
OkAnswers == {k \in 1..Len(admin.report.answers) : admin.report.answers[k] = "ok"}

\* C26: a confirmed bulk delete of a non-empty selection issues exactly one
\* delete request per selected id and awaits them all, reports a success count
\* and a failure count that add up to the number of selected posts, and leaves
\* the selection empty; with an empty selection or a declined prompt it issues
\* no request and changes nothing.
C26_BulkDeleteCounts ==
  /\ [](BulkCalled
          => IF admin.report.confirmed
             THEN /\ admin.report.ids # {}
                  /\ admin.report.issued = Ascending(admin.report.ids)
                  /\ Len(admin.report.answers) = Len(admin.report.issued)
                  /\ admin.report.counted
                  /\ admin.report.success = Cardinality(OkAnswers)
                  /\ admin.report.success + admin.report.fail
                       = Cardinality(admin.report.ids)
                  /\ admin.selectedPosts = {}
             ELSE admin.report.issued = <<>>)
  /\ [][(BulkCalled' /\ ~admin'.report.confirmed /\ admin'.report # admin.report)
          => [admin' EXCEPT !.report = admin.report] = admin]_vars

C26_Witness ==
  /\ BulkCalled /\ admin.report.confirmed
  /\ admin.report.success > 0 /\ admin.report.fail > 0
  /\ \E k \in 1..Len(admin.report.answers) : admin.report.answers[k] = "throw"

\* C27: once nothing is in flight, the displayed posts and totals are those of
\* the response to the request for the selected filter and page.
C27_DisplayedIsCurrent ==
  Quiescent => ~admin.stale

\* ------------------------------------------------------------ detail pages
NoLoadInFlight == detail.kind # "none" /\ detail.loads = <<>>

ErrorView == detail.error \/ detail.post = 0

\* C28: on the blog and news detail pages, once no load is in flight, loading
\* is false and either the error view is shown or the displayed post is the
\* one returned for the current slug, with its own related posts, at most 3.
C28_DisplayedPostIsCurrentSlug ==
  NoLoadInFlight =>
    /\ ~detail.loading
    /\ \/ ErrorView
       \/ /\ detail.post = detail.slug
          /\ detail.relatedPosts.n > 0 => detail.relatedPosts.for = detail.post
          /\ detail.relatedPosts.n <= RelatedLimit

\* ---------------------------------------------------------- image carousel
\* What a finished touch gesture is: the finger went down at start and moved
\* to end; a left swipe has start - end > 50, a right swipe end - start > 50.
Swiped(start, end) ==
  IF start = NoTouch \/ end = NoTouch THEN "tap"
  ELSE IF start - end > minSwipeDistance THEN "left"
  ELSE IF end - start > minSwipeDistance THEN "right"
  ELSE "short"

\* C29: with n >= 1 images the current index stays within 0..n-1; next wraps
\* from the last slide to 0 and previous from slide 0 to n-1; next followed by
\* previous restores the index; a swipe changes the slide exactly when its
\* horizontal distance exceeds 50 pixels (left = next, right = previous),
\* wherever it starts.
C29_CarouselIndex ==
  carousel.n >= 1 =>
    LET n == carousel.n
        e == carousel.last
        swipe == Swiped(e.start, e.end)
    IN /\ carousel.currentIndex \in 0..(n - 1)
       /\ (e.name = "next" /\ e.from = n - 1) => carousel.currentIndex = 0
       /\ (e.name = "previous" /\ e.from = 0) => carousel.currentIndex = n - 1
       /\ (e.name = "previous" /\ e.before = "next")
            => carousel.currentIndex = e.beforeFrom
       /\ e.name = "touchEnd" =>
            carousel.currentIndex =
              IF swipe = "left" THEN (e.from + 1) % n
              ELSE IF swipe = "right" THEN (e.from + n - 1) % n
              ELSE e.from

\* ------------------------------------------------------ media URL handling
\* The URLs that media_urls yields, whatever its shape: its non-empty entries.
Yielded(post) == SelectSeq(post.urls, NonEmpty)

\* C30: the media-URL handling accepts every shape of media_urls without
\* raising an error, for the media carousel and for the social-preview image
\* of the news detail page; empty entries are dropped and media_url is used
\* only when media_urls yields no URL.
C30_EveryShapeAccepted ==
  media.fn # "none" =>
    /\ media.error = "none"
    /\ media.fn = "carousel" =>
         media.urls = IF Yielded(media.post) # <<>> THEN Yielded(media.post)
                      ELSE IF media.post.media_url # "" THEN <<media.post.media_url>>
                      ELSE <<>>
    /\ (media.fn = "ogImage" /\ media.image = media.post.media_url
          /\ media.post.media_url # "")
         => /\ media.post.cover_image_url = ""
            /\ Find(media.post.urls) = ""

====
